---- MODULE Spec2Model ----
(***************************************************************************)
(* Project Tracker (src/app.py): a Flask application over two MongoDB      *)
(* collections, trainers and projects, with a cookie session per client.   *)
(* Every route handler is a pure operator from (session, collections,      *)
(* request) to (response, session, collections); the actions apply the     *)
(* handlers to the state of one client.  A handler that issues two store   *)
(* operations that both decide its effect (create_trainer: find_one then   *)
(* insert_one; manage_trainer DELETE: delete_one then delete_many) is two  *)
(* steps, so that requests of other clients can fall between them.         *)
(*                                                                         *)
(* Left out: created_at (set once, only formatted on output), the static   *)
(* page, and path ids that are not well-formed ObjectIds.                  *)
(***************************************************************************)
EXTENDS Integers, Sequences, FiniteSets, TLC

VARIABLES trainers, projects, nextTrainerOid, nextProjectOid,
          session, pc, req, resp, scenario

vars == <<trainers, projects, nextTrainerOid, nextProjectOid,
          session, pc, req, resp, scenario>>

\* ------------------------------------------------------------------ bounds
\* ObjectIds the trainers collection hands out over a run
MaxTrainers == 2
\* ObjectIds the projects collection hands out over a run
MaxProjects == 2

\* ------------------------------------------------------------------ inputs
None == "None"
Absent == "absent"
Clients == {"c1", "c2"}
TrainerNames == {"a", "b"}
Passwords == {"p", "q"}
\* the salts generate_password_hash draws from
Salts == {"s1"}
AdminUsername == "admin"
AdminPassword == "adminpw"
AdminCredentials == {<<AdminUsername, AdminPassword>>, <<AdminUsername, "wrong">>}

\* request bodies of the project routes; data.get(k) of a missing key is None
ProjectBodies ==
  { [date |-> "d1", project_name |-> "n1", project_details |-> "x", remarks |-> "y"],
    [date |-> "d2", project_name |-> "n2", project_details |-> None, remarks |-> "y"] }

\* request bodies of PUT /api/admin/trainer/<id>: each key present or absent
TrainerUpdates ==
  { [trainer_name |-> n, password |-> p] :
      n \in TrainerNames \cup {Absent}, p \in Passwords \cup {Absent, ""} }

\* the requests the clients send: every input of the sets above ...
AllInputs ==
  [credentials |-> AdminCredentials,
   names |-> TrainerNames, passwords |-> Passwords,
   new_names |-> TrainerNames \cup {""}, new_passwords |-> Passwords \cup {""},
   updates |-> TrainerUpdates, bodies |-> ProjectBodies]
\* ... or, where the requests of two clients interleave, one of each kind
FewInputs ==
  [credentials |-> {<<AdminUsername, AdminPassword>>},
   names |-> {"a"}, passwords |-> {"p"},
   new_names |-> {"a"}, new_passwords |-> {"p"},
   updates |-> {[trainer_name |-> "a", password |-> Absent]},
   bodies |-> {[date |-> "d1", project_name |-> "n1", project_details |-> "x",
                remarks |-> "y"]}]

\* ------------------------------------------------------------- identifiers
\* str(ObjectId): the external string form of an identifier
str(oid) == ToString(oid)
TrainerIds == { str(i) : i \in 1..MaxTrainers }
ProjectIds == { str(i) : i \in 1..MaxProjects }
\* ObjectId(s): the identifier a well-formed string denotes
ObjectId(s) == CHOOSE i \in 1..(MaxTrainers + MaxProjects) : str(i) = s

\* ---------------------------------------------------------------- werkzeug
\* the digest is one-way and collision free: a salted pair stands for it
generate_password_hash(password, salt) ==
  [salt |-> salt, digest |-> <<salt, password>>]
check_password_hash(pwhash, password) ==
  pwhash.digest = <<pwhash.salt, password>>

\* ------------------------------------------------------------ simple_admin
verify_admin(username, password) ==
  username = AdminUsername /\ password = AdminPassword

\* ----------------------------------------------------------------- pymongo
\* A query is given by the set of the indices of the documents it matches.
Indices(coll) == 1..Len(coll)
\* find_one: the first match in collection order, 0 for None
FirstIndex(matching) ==
  IF matching = {} THEN 0
  ELSE CHOOSE i \in matching : \A j \in matching : i <= j
\* the collection without the documents at the indices in drop
Without(coll, drop) ==
  LET kept == Indices(coll) \ drop
      nth == [k \in 1..Cardinality(kept) |->
                CHOOSE i \in kept : Cardinality({ j \in kept : j < i }) = k - 1]
  IN [k \in 1..Cardinality(kept) |-> coll[nth[k]]]
\* delete_one: removes the first match; deleted_count is 1 or 0
delete_one(coll, matching) ==
  LET i == FirstIndex(matching)
  IN IF i = 0 THEN [coll |-> coll, deleted_count |-> 0]
               ELSE [coll |-> Without(coll, {i}), deleted_count |-> 1]
\* delete_many: removes every match
delete_many(coll, matching) == Without(coll, matching)
\* update_one with $set, updated[i] being document i with the fields set:
\* matched_count counts the first match, modified_count counts it only when
\* the document changed
update_one(coll, matching, updated) ==
  LET i == FirstIndex(matching)
  IN IF i = 0
       THEN [coll |-> coll, matched_count |-> 0, modified_count |-> 0]
       ELSE [coll |-> [coll EXCEPT ![i] = updated[i]],
             matched_count |-> 1,
             modified_count |-> IF updated[i] = coll[i] THEN 0 ELSE 1]

\* ----------------------------------------------------------------- session
EmptySession ==
  [admin_logged_in |-> FALSE, trainer_logged_in |-> FALSE,
   trainer_id |-> None, trainer_name |-> None, user_type |-> None]

Result(code, message, sess, ts, ps) ==
  [code |-> code, message |-> message, body |-> <<>>, session |-> sess,
   trainers |-> ts, projects |-> ps]
Unauthorized(sess, ts, ps) == Result(401, "Unauthorized", sess, ts, ps)

\* GET /api/check_session
check_session(sess) ==
  IF sess.admin_logged_in
    THEN [logged_in |-> TRUE, user_type |-> "admin", trainer_name |-> None]
  ELSE IF sess.trainer_logged_in
    THEN [logged_in |-> TRUE, user_type |-> "trainer",
          trainer_name |-> sess.trainer_name]
  ELSE [logged_in |-> FALSE, user_type |-> None, trainer_name |-> None]

\* a logout that drops the administrator flag only
logout_admin_flag_only(sess, ts, ps) ==
  Result(200, "Logged out successfully",
         [sess EXCEPT !.admin_logged_in = FALSE], ts, ps)

\* POST /api/logout
logout(sess, ts, ps) ==
  Result(200, "Logged out successfully", EmptySession, ts, ps)

\* POST /api/admin/login
admin_login(sess, ts, ps, username, password) ==
  IF verify_admin(username, password)
    THEN Result(200, "Login successful",
                [sess EXCEPT !.admin_logged_in = TRUE, !.user_type = "admin"],
                ts, ps)
    ELSE Result(401, "Invalid credentials", sess, ts, ps)

\* POST /api/user/login
user_login(sess, ts, ps, trainer_name, password) ==
  LET i == FirstIndex({ k \in Indices(ts) : ts[k].trainer_name = trainer_name })
  IN IF i # 0 /\ check_password_hash(ts[i].password, password)
       THEN [Result(200, "Login successful",
                    [sess EXCEPT !.trainer_logged_in = TRUE,
                                 !.trainer_id = str(ts[i]._id),
                                 !.trainer_name = ts[i].trainer_name,
                                 !.user_type = "trainer"],
                    ts, ps)
               EXCEPT !.body = <<ts[i].trainer_name>>]
       ELSE Result(401, "Invalid credentials", sess, ts, ps)

\* ------------------------------------------------------------ admin routes
\* a create_trainer that skips the lookup of the name
create_trainer_check_no_lookup(sess, ts, ps, trainer_name, password) ==
  IF ~sess.admin_logged_in THEN Unauthorized(sess, ts, ps)
  ELSE IF trainer_name = "" \/ password = ""
    THEN Result(400, "Trainer name and password are required", sess, ts, ps)
  ELSE Result(0, None, sess, ts, ps)

\* POST /api/admin/create_trainer up to the existence check; code 0 says the
\* handler goes on to the insert
create_trainer_check(sess, ts, ps, trainer_name, password) ==
  IF ~sess.admin_logged_in THEN Unauthorized(sess, ts, ps)
  ELSE IF trainer_name = "" \/ password = ""
    THEN Result(400, "Trainer name and password are required", sess, ts, ps)
  ELSE IF FirstIndex({ k \in Indices(ts) : ts[k].trainer_name = trainer_name }) # 0
    THEN Result(400, "Trainer already exists", sess, ts, ps)
  ELSE Result(0, None, sess, ts, ps)

\* the insert of create_trainer; oid is the ObjectId the store generates
create_trainer_insert(sess, ts, ps, oid, trainer_name, password, salt) ==
  Result(200, "Trainer created successfully", sess,
         Append(ts, [_id |-> oid, trainer_name |-> trainer_name,
                     password |-> generate_password_hash(password, salt)]),
         ps)

\* the whole handler, run without interruption
create_trainer(sess, ts, ps, oid, trainer_name, password, salt) ==
  LET r == create_trainer_check(sess, ts, ps, trainer_name, password)
  IN IF r.code # 0 THEN r
     ELSE create_trainer_insert(sess, ts, ps, oid, trainer_name, password, salt)

\* GET /api/admin/trainers: the password is projected away
TrainerView(t) == [_id |-> str(t._id), trainer_name |-> t.trainer_name]
get_trainers(sess, ts, ps) ==
  IF ~sess.admin_logged_in THEN Unauthorized(sess, ts, ps)
  ELSE [Result(200, None, sess, ts, ps) EXCEPT
          !.body = [i \in Indices(ts) |-> TrainerView(ts[i])]]

\* DELETE /api/admin/trainer/<trainer_id>, first store operation
manage_trainer_delete_one(sess, ts, ps, trainer_id) ==
  IF ~sess.admin_logged_in THEN Unauthorized(sess, ts, ps)
  ELSE Result(0, None, sess,
              delete_one(ts, { k \in Indices(ts) :
                                 ts[k]._id = ObjectId(trainer_id) }).coll,
              ps)

\* DELETE /api/admin/trainer/<trainer_id>, second store operation
manage_trainer_delete_many(sess, ts, ps, trainer_id) ==
  Result(200, "Trainer deleted successfully", sess, ts,
         delete_many(ps, { k \in Indices(ps) : ps[k].trainer_id = trainer_id }))

\* the whole DELETE handler, run without interruption
manage_trainer_delete(sess, ts, ps, trainer_id) ==
  LET r == manage_trainer_delete_one(sess, ts, ps, trainer_id)
  IN IF r.code # 0 THEN r
     ELSE manage_trainer_delete_many(sess, r.trainers, r.projects, trainer_id)

\* PUT /api/admin/trainer/<trainer_id>; an empty $set is accepted or rejected
\* by the store depending on its version (emptySetOk)
TrainerSet(t, data, salt) ==
  LET named == IF data.trainer_name # Absent
                 THEN [t EXCEPT !.trainer_name = data.trainer_name] ELSE t
  IN IF data.password # Absent /\ data.password # ""
       THEN [named EXCEPT !.password = generate_password_hash(data.password, salt)]
       ELSE named
manage_trainer_put(sess, ts, ps, trainer_id, data, salt, emptySetOk) ==
  IF ~sess.admin_logged_in THEN Unauthorized(sess, ts, ps)
  ELSE IF data.trainer_name = Absent /\ data.password \in {Absent, ""}
          /\ ~emptySetOk
    THEN Result(500, "Internal Server Error", sess, ts, ps)
  ELSE Result(200, "Trainer updated successfully", sess,
              update_one(ts, { k \in Indices(ts) :
                                 ts[k]._id = ObjectId(trainer_id) },
                         [k \in Indices(ts) |-> TrainerSet(ts[k], data, salt)]).coll,
              ps)

\* the view of a project both list routes return
ProjectView(p) ==
  [_id |-> str(p._id), date |-> p.date, project_name |-> p.project_name,
   project_details |-> p.project_details, remarks |-> p.remarks]

\* the name get_all_projects files a project under
ResolvedName(ts, p) ==
  LET i == FirstIndex({ k \in Indices(ts) : ts[k]._id = ObjectId(p.trainer_id) })
  IN IF i # 0 THEN ts[i].trainer_name ELSE "Unknown"

\* grouping of a sequence of documents, document i under keys[i], each group
\* in collection order
Grouped(docs, keys) ==
  [g \in { keys[i] : i \in Indices(docs) } |->
     LET members == Without(docs, { i \in Indices(docs) : keys[i] # g })
     IN [i \in Indices(members) |-> ProjectView(members[i])]]

\* GET /api/admin/projects
get_all_projects(sess, ts, ps) ==
  IF ~sess.admin_logged_in THEN Unauthorized(sess, ts, ps)
  ELSE [Result(200, None, sess, ts, ps) EXCEPT
          !.body = Grouped(ps, [i \in Indices(ps) |-> ResolvedName(ts, ps[i])])]

ProjectSet(p, data) ==
  [p EXCEPT !.date = data.date, !.project_name = data.project_name,
            !.project_details = data.project_details, !.remarks = data.remarks]

\* DELETE /api/admin/project/<project_id>
admin_manage_project_delete(sess, ts, ps, project_id) ==
  IF ~sess.admin_logged_in THEN Unauthorized(sess, ts, ps)
  ELSE LET result == delete_one(ps, { k \in Indices(ps) :
                                       ps[k]._id = ObjectId(project_id) })
       IN IF result.deleted_count > 0
            THEN Result(200, "Project deleted successfully", sess, ts, result.coll)
            ELSE Result(404, "Project not found", sess, ts, result.coll)

\* PUT /api/admin/project/<project_id>
admin_manage_project_put(sess, ts, ps, project_id, data) ==
  IF ~sess.admin_logged_in THEN Unauthorized(sess, ts, ps)
  ELSE LET result == update_one(ps, { k \in Indices(ps) :
                                       ps[k]._id = ObjectId(project_id) },
                                [k \in Indices(ps) |-> ProjectSet(ps[k], data)])
       IN IF result.modified_count > 0
            THEN Result(200, "Project updated successfully", sess, ts, result.coll)
            ELSE Result(404, "Project not found", sess, ts, result.coll)

\* ---------------------------------------------------------- trainer routes
\* POST /api/user/projects; oid is the ObjectId the store generates
manage_projects_post(sess, ts, ps, oid, data) ==
  IF ~sess.trainer_logged_in THEN Unauthorized(sess, ts, ps)
  ELSE Result(200, "Project added successfully", sess, ts,
              Append(ps, [_id |-> oid, trainer_id |-> sess.trainer_id,
                          date |-> data.date,
                          project_name |-> data.project_name,
                          project_details |-> data.project_details,
                          remarks |-> data.remarks]))

\* a list that leaves the owner out of its query
manage_projects_get_unfiltered(sess, ts, ps) ==
  IF ~sess.trainer_logged_in THEN Unauthorized(sess, ts, ps)
  ELSE [Result(200, None, sess, ts, ps) EXCEPT
          !.body = Grouped(ps, [i \in Indices(ps) |-> ps[i].project_name])]

\* GET /api/user/projects
manage_projects_get(sess, ts, ps) ==
  IF ~sess.trainer_logged_in THEN Unauthorized(sess, ts, ps)
  ELSE LET found == Without(ps, { k \in Indices(ps) :
                                    ps[k].trainer_id # sess.trainer_id })
       IN [Result(200, None, sess, ts, ps) EXCEPT
             !.body = Grouped(found, [i \in Indices(found) |->
                                        found[i].project_name])]

\* DELETE /api/user/project/<project_id>
manage_project_delete(sess, ts, ps, project_id) ==
  IF ~sess.trainer_logged_in THEN Unauthorized(sess, ts, ps)
  ELSE LET result ==
             delete_one(ps, { k \in Indices(ps) :
                                ps[k]._id = ObjectId(project_id)
                                /\ ps[k].trainer_id = sess.trainer_id })
       IN IF result.deleted_count > 0
            THEN Result(200, "Project deleted successfully", sess, ts, result.coll)
            ELSE Result(404, "Project not found or unauthorized", sess, ts,
                        result.coll)

\* an update that matches on the id alone
manage_project_put_any_owner(sess, ts, ps, project_id, data) ==
  IF ~sess.trainer_logged_in THEN Unauthorized(sess, ts, ps)
  ELSE LET result ==
             update_one(ps, { k \in Indices(ps) :
                                ps[k]._id = ObjectId(project_id) },
                        [k \in Indices(ps) |-> ProjectSet(ps[k], data)])
       IN IF result.modified_count > 0 \/ result.matched_count > 0
            THEN Result(200, "Project updated successfully", sess, ts, result.coll)
            ELSE Result(404, "Project not found or unauthorized", sess, ts,
                        result.coll)

\* PUT /api/user/project/<project_id>
manage_project_put(sess, ts, ps, project_id, data) ==
  IF ~sess.trainer_logged_in THEN Unauthorized(sess, ts, ps)
  ELSE LET result ==
             update_one(ps, { k \in Indices(ps) :
                                ps[k]._id = ObjectId(project_id)
                                /\ ps[k].trainer_id = sess.trainer_id },
                        [k \in Indices(ps) |-> ProjectSet(ps[k], data)])
       IN IF result.modified_count > 0 \/ result.matched_count > 0
            THEN Result(200, "Project updated successfully", sess, ts, result.coll)
            ELSE Result(404, "Project not found or unauthorized", sess, ts,
                        result.coll)

\* --------------------------------------------------------------- the state
\* pc[c]: where client c's request in flight stands; req[c]: its arguments
NoRequest == [trainer_name |-> None, password |-> None, trainer_id |-> None]
\* resp: the last response sent (client, route, status code, path id)
NoResponse == [client |-> None, op |-> None, code |-> 0, id |-> None]

\* scenario follows the run of requests "create_trainer(name, pw1) succeeds,
\* create_trainer(name, pw2), user_login(name, attempt)..." when these follow
\* each other with no other step between them
NoScenario ==
  [stage |-> "none", name |-> None, pw1 |-> None, pw2 |-> None,
   dup_code |-> 0, dup_message |-> None, dup_unchanged |-> TRUE,
   attempt |-> None, login_code |-> 0, login_name |-> None]

Observe(scen, op, r, name, password, unchanged) ==
  IF op = "create_trainer" /\ r.code = 200
    THEN [NoScenario EXCEPT !.stage = "created", !.name = name, !.pw1 = password]
  ELSE IF op = "create_trainer" /\ scen.stage = "created" /\ scen.name = name
          /\ password # ""
    THEN [scen EXCEPT !.stage = "duplicate", !.pw2 = password,
                      !.dup_code = r.code, !.dup_message = r.message,
                      !.dup_unchanged = unchanged]
  ELSE IF op = "user_login" /\ scen.stage \in {"duplicate", "login"}
          /\ scen.name = name
    THEN [scen EXCEPT !.stage = "login", !.attempt = password,
                      !.login_code = r.code,
                      !.login_name = IF r.code = 200 THEN r.body[1] ELSE None]
  ELSE NoScenario

Init ==
  /\ trainers = <<>>
  /\ projects = <<>>
  /\ nextTrainerOid = 0
  /\ nextProjectOid = 0
  /\ session = [c \in Clients |-> EmptySession]
  /\ pc = [c \in Clients |-> "idle"]
  /\ req = [c \in Clients |-> NoRequest]
  /\ resp = NoResponse
  /\ scenario = NoScenario

\* the handler's result r becomes the state and the response of client c
Respond(c, op, id, r) ==
  /\ trainers' = r.trainers
  /\ projects' = r.projects
  /\ session' = [session EXCEPT ![c] = r.session]
  /\ resp' = [client |-> c, op |-> op, code |-> r.code, id |-> id]

\* ObjectIds promised to inserts of create_trainer that are in flight
PendingCreates == Cardinality({ c \in Clients : pc[c] = "create_insert" })

AdminLogin(c, credentials) ==
  /\ pc[c] = "idle"
  /\ \E cred \in credentials :
       LET r == admin_login(session[c], trainers, projects, cred[1], cred[2])
       IN /\ Respond(c, "admin_login", None, r)
          /\ scenario' = Observe(scenario, "admin_login", r, None, None, TRUE)
  /\ UNCHANGED <<nextTrainerOid, nextProjectOid, pc, req>>

UserLogin(c, names, passwords) ==
  /\ pc[c] = "idle"
  /\ \E n \in names, p \in passwords :
       LET r == user_login(session[c], trainers, projects, n, p)
       IN /\ Respond(c, "user_login", None, r)
          /\ scenario' = Observe(scenario, "user_login", r, n, p, TRUE)
  /\ UNCHANGED <<nextTrainerOid, nextProjectOid, pc, req>>

CheckSession(c) ==
  /\ pc[c] = "idle"
  /\ resp' = [client |-> c, op |-> "check_session", code |-> 200, id |-> None]
  /\ scenario' = NoScenario
  /\ UNCHANGED <<trainers, projects, nextTrainerOid, nextProjectOid,
                 session, pc, req>>

Logout(c) ==
  /\ pc[c] = "idle"
  /\ LET r == logout(session[c], trainers, projects)
     IN /\ Respond(c, "logout", None, r)
        /\ scenario' = Observe(scenario, "logout", r, None, None, TRUE)
  /\ UNCHANGED <<nextTrainerOid, nextProjectOid, pc, req>>

\* create_trainer up to its find_one: it answers, or goes on to the insert
CreateTrainerCheck(c, names, passwords) ==
  /\ pc[c] = "idle"
  /\ \E n \in names, p \in passwords :
       LET r == create_trainer_check(session[c], trainers, projects, n, p)
       IN IF r.code # 0
            THEN /\ Respond(c, "create_trainer", None, r)
                 /\ scenario' = Observe(scenario, "create_trainer", r, n, p,
                                        r.trainers = trainers)
                 /\ UNCHANGED <<pc, req>>
            ELSE /\ nextTrainerOid + PendingCreates < MaxTrainers
                 /\ pc' = [pc EXCEPT ![c] = "create_insert"]
                 /\ req' = [req EXCEPT ![c] = [NoRequest EXCEPT
                                                 !.trainer_name = n,
                                                 !.password = p]]
                 /\ scenario' = Observe(scenario, "create_trainer", r, n, p, TRUE)
                 /\ UNCHANGED <<trainers, projects, session, resp>>
  /\ UNCHANGED <<nextTrainerOid, nextProjectOid>>

\* create_trainer's insert_one and its answer
CreateTrainerInsert(c) ==
  /\ pc[c] = "create_insert"
  /\ \E salt \in Salts :
       LET r == create_trainer_insert(session[c], trainers, projects,
                                      nextTrainerOid + 1, req[c].trainer_name,
                                      req[c].password, salt)
       IN /\ Respond(c, "create_trainer", None, r)
          /\ scenario' = Observe(scenario, "create_trainer", r,
                                 req[c].trainer_name, req[c].password, FALSE)
  /\ nextTrainerOid' = nextTrainerOid + 1
  /\ pc' = [pc EXCEPT ![c] = "idle"]
  /\ req' = [req EXCEPT ![c] = NoRequest]
  /\ UNCHANGED nextProjectOid

GetTrainers(c) ==
  /\ pc[c] = "idle"
  /\ LET r == get_trainers(session[c], trainers, projects)
     IN /\ Respond(c, "get_trainers", None, r)
        /\ scenario' = Observe(scenario, "get_trainers", r, None, None, TRUE)
  /\ UNCHANGED <<nextTrainerOid, nextProjectOid, pc, req>>

\* manage_trainer DELETE up to its delete_one: Unauthorized, or the trainer
\* is removed and the cascade is still to run
DeleteTrainerOne(c) ==
  /\ pc[c] = "idle"
  /\ \E id \in TrainerIds :
       LET r == manage_trainer_delete_one(session[c], trainers, projects, id)
       IN IF r.code # 0
            THEN /\ Respond(c, "manage_trainer_DELETE", id, r)
                 /\ UNCHANGED <<pc, req>>
            ELSE /\ trainers' = r.trainers
                 /\ pc' = [pc EXCEPT ![c] = "delete_many"]
                 /\ req' = [req EXCEPT ![c] = [NoRequest EXCEPT !.trainer_id = id]]
                 /\ UNCHANGED <<projects, session, resp>>
  /\ scenario' = NoScenario
  /\ UNCHANGED <<nextTrainerOid, nextProjectOid>>

\* manage_trainer DELETE's delete_many and its answer
DeleteTrainerMany(c) ==
  /\ pc[c] = "delete_many"
  /\ LET r == manage_trainer_delete_many(session[c], trainers, projects,
                                         req[c].trainer_id)
     IN Respond(c, "manage_trainer_DELETE", req[c].trainer_id, r)
  /\ pc' = [pc EXCEPT ![c] = "idle"]
  /\ req' = [req EXCEPT ![c] = NoRequest]
  /\ scenario' = NoScenario
  /\ UNCHANGED <<nextTrainerOid, nextProjectOid>>

UpdateTrainer(c, updates) ==
  /\ pc[c] = "idle"
  /\ \E id \in TrainerIds, data \in updates, salt \in Salts,
        emptySetOk \in BOOLEAN :
       LET r == manage_trainer_put(session[c], trainers, projects, id, data,
                                   salt, emptySetOk)
       IN Respond(c, "manage_trainer_PUT", id, r)
  /\ scenario' = NoScenario
  /\ UNCHANGED <<nextTrainerOid, nextProjectOid, pc, req>>

GetAllProjects(c) ==
  /\ pc[c] = "idle"
  /\ LET r == get_all_projects(session[c], trainers, projects)
     IN Respond(c, "get_all_projects", None, r)
  /\ scenario' = NoScenario
  /\ UNCHANGED <<nextTrainerOid, nextProjectOid, pc, req>>

AdminDeleteProject(c) ==
  /\ pc[c] = "idle"
  /\ \E id \in ProjectIds :
       LET r == admin_manage_project_delete(session[c], trainers, projects, id)
       IN Respond(c, "admin_manage_project_DELETE", id, r)
  /\ scenario' = NoScenario
  /\ UNCHANGED <<nextTrainerOid, nextProjectOid, pc, req>>

AdminUpdateProject(c, bodies) ==
  /\ pc[c] = "idle"
  /\ \E id \in ProjectIds, data \in bodies :
       LET r == admin_manage_project_put(session[c], trainers, projects, id, data)
       IN Respond(c, "admin_manage_project_PUT", id, r)
  /\ scenario' = NoScenario
  /\ UNCHANGED <<nextTrainerOid, nextProjectOid, pc, req>>

AddProject(c, bodies) ==
  /\ pc[c] = "idle"
  /\ \E data \in bodies :
       LET r == manage_projects_post(session[c], trainers, projects,
                                     nextProjectOid + 1, data)
       IN /\ r.code = 200 => nextProjectOid < MaxProjects
          /\ Respond(c, "manage_projects_POST", None, r)
          /\ nextProjectOid' = IF r.code = 200 THEN nextProjectOid + 1
                                               ELSE nextProjectOid
  /\ scenario' = NoScenario
  /\ UNCHANGED <<nextTrainerOid, pc, req>>

ListProjects(c) ==
  /\ pc[c] = "idle"
  /\ LET r == manage_projects_get(session[c], trainers, projects)
     IN Respond(c, "manage_projects_GET", None, r)
  /\ scenario' = NoScenario
  /\ UNCHANGED <<nextTrainerOid, nextProjectOid, pc, req>>

DeleteProject(c) ==
  /\ pc[c] = "idle"
  /\ \E id \in ProjectIds :
       LET r == manage_project_delete(session[c], trainers, projects, id)
       IN Respond(c, "manage_project_DELETE", id, r)
  /\ scenario' = NoScenario
  /\ UNCHANGED <<nextTrainerOid, nextProjectOid, pc, req>>

UpdateProject(c, bodies) ==
  /\ pc[c] = "idle"
  /\ \E id \in ProjectIds, data \in bodies :
       LET r == manage_project_put(session[c], trainers, projects, id, data)
       IN Respond(c, "manage_project_PUT", id, r)
  /\ scenario' = NoScenario
  /\ UNCHANGED <<nextTrainerOid, nextProjectOid, pc, req>>

\* one step of client c, its requests drawn from the inputs in
Step(c, in) ==
  \/ AdminLogin(c, in.credentials)
  \/ UserLogin(c, in.names, in.passwords)
  \/ CheckSession(c)
  \/ Logout(c)
  \/ CreateTrainerCheck(c, in.new_names, in.new_passwords)
  \/ CreateTrainerInsert(c)
  \/ GetTrainers(c)
  \/ DeleteTrainerOne(c)
  \/ DeleteTrainerMany(c)
  \/ UpdateTrainer(c, in.updates)
  \/ GetAllProjects(c)
  \/ AdminDeleteProject(c)
  \/ AdminUpdateProject(c, in.bodies)
  \/ AddProject(c, in.bodies)
  \/ ListProjects(c)
  \/ DeleteProject(c)
  \/ UpdateProject(c, in.bodies)

\* sequential execution: one client session, one request at a time
Next == Step("c1", AllInputs)
Spec == Init /\ [][Next]_vars

\* concurrent execution: the steps of two clients' requests interleave freely
NextConcurrent == \E c \in Clients : Step(c, FewInputs)
SpecConcurrent == Init /\ [][NextConcurrent]_vars

\* ------------------------------------------------------------------ claims
\* the role check_session reports for a session
Role(sess) ==
  LET r == check_session(sess)
  IN IF r.logged_in THEN r.user_type ELSE "none"

\* a well-formed project id the store never hands out
MissingProjectId == str(MaxProjects + 1)

\* the results of every administrator-only request a session can send
AdminOnlyResults(sess) ==
  { create_trainer(sess, trainers, projects, nextTrainerOid + 1, n, p, salt) :
      n \in AllInputs.new_names, p \in AllInputs.new_passwords, salt \in Salts }
  \cup { get_trainers(sess, trainers, projects),
         get_all_projects(sess, trainers, projects) }
  \cup { manage_trainer_delete(sess, trainers, projects, id) : id \in TrainerIds }
  \cup { manage_trainer_put(sess, trainers, projects, id, data, salt, TRUE) :
           id \in TrainerIds, data \in TrainerUpdates, salt \in Salts }
  \cup { admin_manage_project_delete(sess, trainers, projects, id) :
           id \in ProjectIds }
  \cup { admin_manage_project_put(sess, trainers, projects, id, data) :
           id \in ProjectIds, data \in ProjectBodies }

\* the results of every trainer-only request a session can send
TrainerOnlyResults(sess) ==
  { manage_projects_get(sess, trainers, projects) }
  \cup { manage_projects_post(sess, trainers, projects, nextProjectOid + 1, data) :
           data \in ProjectBodies }
  \cup { manage_project_put(sess, trainers, projects, id, data) :
           id \in ProjectIds, data \in ProjectBodies }
  \cup { manage_project_delete(sess, trainers, projects, id) : id \in ProjectIds }

\* the request was refused and the collections are as they were
Refused(r) ==
  r.code = 401 /\ r.message = "Unauthorized"
  /\ r.trainers = trainers /\ r.projects = projects

\* C1: with the role check_session reports, every administrator-only request
\* of a session whose role is not admin, and every trainer-only request of a
\* session whose role is not trainer, is answered 401 Unauthorized and leaves
\* both collections unchanged.
C1_RoleGatesEveryOperation ==
  \A c \in Clients :
    /\ Role(session[c]) # "admin" =>
         \A r \in AdminOnlyResults(session[c]) : Refused(r)
    /\ Role(session[c]) # "trainer" =>
         \A r \in TrainerOnlyResults(session[c]) : Refused(r)

\* administrator authority: some administrator-only request is not refused
AdminAuthorized(sess) == \E r \in AdminOnlyResults(sess) : r.code # 401
\* trainer authority: some trainer-only request is not refused
TrainerAuthorized(sess) == \E r \in TrainerOnlyResults(sess) : r.code # 401

\* C4: no session ever holds administrator authority and trainer authority
\* at the same time.
C4_RolesMutuallyExclusive ==
  \A c \in Clients :
    ~(AdminAuthorized(session[c]) /\ TrainerAuthorized(session[c]))

\* C5: no two Trainer records have the same name.
C5_TrainerNamesUnique ==
  \A i, j \in Indices(trainers) :
    i # j => trainers[i].trainer_name # trainers[j].trainer_name

\* the document of collection coll with identifier oid
DocOf(coll, oid) == coll[CHOOSE i \in Indices(coll) : coll[i]._id = oid]

\* delete(str(oid)) has run both of its steps: the trainer the store once
\* created is gone and no cascade for it is still to run
DeleteCompleted(oid) ==
  /\ oid \in 1..nextTrainerOid
  /\ \A i \in Indices(trainers) : trainers[i]._id # oid
  /\ \A c \in Clients : ~(pc[c] = "delete_many" /\ req[c].trainer_id = str(oid))

\* C6: once delete(T.id) has completed, the store holds no Project whose
\* owner is T, and the administrator's list files nothing under "Unknown".
C6_CascadeComplete ==
  \A oid \in 1..MaxTrainers :
    DeleteCompleted(oid) =>
      /\ \A i \in Indices(projects) : projects[i].trainer_id # str(oid)
      /\ LET listed == get_all_projects([EmptySession EXCEPT
                                           !.admin_logged_in = TRUE],
                                        trainers, projects).body
         IN "Unknown" \in DOMAIN listed =>
              \A k \in DOMAIN listed["Unknown"] :
                DocOf(projects, ObjectId(listed["Unknown"][k]._id)).trainer_id
                  # str(oid)

\* C7: whenever a Project is inserted, a Trainer whose id is the new
\* Project's owner_id exists in the store at that moment.
C7_OwnerExistsAtCreation ==
  [][Len(projects') > Len(projects) =>
       \E i \in Indices(trainers) :
         str(trainers[i]._id) = projects'[Len(projects')].trainer_id]_vars

\* the four fields of project document p are those of the request body
FieldsAre(p, data) ==
  /\ p.date = data.date
  /\ p.project_name = data.project_name
  /\ p.project_details = data.project_details
  /\ p.remarks = data.remarks

\* C10: an update of an existing Project succeeds for an administrator
\* session and for the session of its owner, whatever the supplied values
\* (those already stored included), and the project then holds them.
C10_UpdateOfExistingProjectSucceeds ==
  \A c \in Clients, i \in Indices(projects), data \in ProjectBodies :
    LET P == projects[i]
        ra == admin_manage_project_put(session[c], trainers, projects,
                                       str(P._id), data)
        rt == manage_project_put(session[c], trainers, projects,
                                 str(P._id), data)
    IN /\ session[c].admin_logged_in =>
            ra.code = 200 /\ FieldsAre(DocOf(ra.projects, P._id), data)
       /\ (session[c].trainer_logged_in
           /\ session[c].trainer_id = P.trainer_id) =>
            rt.code = 200 /\ FieldsAre(DocOf(rt.projects, P._id), data)

\* what the client sees of a result
Response(r) == <<r.code, r.message, r.body>>

\* the well-formed project ids that match no Project
UnmatchedProjectIds ==
  { id \in ProjectIds \cup {MissingProjectId} :
      \A i \in Indices(projects) : str(projects[i]._id) # id }

\* C2: for a trainer session and a Project another trainer owns, the update
\* and the delete are both answered 404 NotFound, with the response an id
\* that matches no Project gets, and the Project stays in the store unchanged.
C2_ForeignProjectIsNotFound ==
  \A c \in Clients, i \in Indices(projects) :
    (session[c].trainer_logged_in
     /\ projects[i].trainer_id # session[c].trainer_id) =>
      LET id == str(projects[i]._id)
          rd == manage_project_delete(session[c], trainers, projects, id)
      IN /\ rd.code = 404
         /\ rd.projects = projects /\ rd.trainers = trainers
         /\ \A missing \in UnmatchedProjectIds :
              Response(rd) = Response(manage_project_delete(
                               session[c], trainers, projects, missing))
         /\ \A data \in ProjectBodies :
              LET ru == manage_project_put(session[c], trainers, projects,
                                           id, data)
              IN /\ ru.code = 404
                 /\ ru.projects = projects /\ ru.trainers = trainers
                 /\ \A missing \in UnmatchedProjectIds :
                      Response(ru) = Response(manage_project_put(
                                       session[c], trainers, projects,
                                       missing, data))

\* a trainer's update of another trainer's Project has just been answered 404
C2_Witness ==
  /\ resp.client \in Clients
  /\ resp.op = "manage_project_PUT"
  /\ resp.code = 404
  /\ session[resp.client].trainer_logged_in
  /\ \E i \in Indices(projects) :
       /\ str(projects[i]._id) = resp.id
       /\ projects[i].trainer_id # session[resp.client].trainer_id

\* the places <<group, position>> of the views in a grouped list
Places(body) ==
  UNION { { <<k, n>> : n \in DOMAIN body[k] } : k \in DOMAIN body }

\* C3: the list a trainer session gets holds exactly the Projects whose
\* owner_id is the session's trainer id: each of them once, in the group of
\* its own name, with the date, name, details and remarks the store holds,
\* and no Project of another owner.
C3_TrainerListIsOwnProjects ==
  \A c \in Clients :
    session[c].trainer_logged_in =>
      LET r == manage_projects_get(session[c], trainers, projects)
          own == { i \in Indices(projects) :
                     projects[i].trainer_id = session[c].trainer_id }
          at(e) == r.body[e[1]][e[2]]
      IN /\ r.code = 200
         /\ \A i \in own :
              LET found == { e \in Places(r.body) :
                               at(e)._id = str(projects[i]._id) }
              IN /\ Cardinality(found) = 1
                 /\ \A e \in found :
                      /\ e[1] = projects[i].project_name
                      /\ FieldsAre(at(e), projects[i])
         /\ \A e \in Places(r.body) :
              \E i \in own : at(e)._id = str(projects[i]._id)

\* a trainer who owns a Project has just listed, with another trainer's
\* Project in the store
C3_Witness ==
  /\ resp.client \in Clients
  /\ resp.op = "manage_projects_GET"
  /\ resp.code = 200
  /\ \E i, j \in Indices(projects) :
       /\ projects[i].trainer_id = session[resp.client].trainer_id
       /\ projects[j].trainer_id # session[resp.client].trainer_id

\* C8: under sequential execution, a create with the name of the trainer
\* just created is answered 400 AlreadyExists and leaves the Trainer
\* collection unchanged; a login with that name then fails with 401 for a
\* password other than the first create's and succeeds, carrying the name,
\* for the first create's password.
C8_DuplicateCreateRejected ==
  /\ scenario.stage \in {"duplicate", "login"} =>
       /\ scenario.dup_code = 400
       /\ scenario.dup_message = "Trainer already exists"
       /\ scenario.dup_unchanged
  /\ scenario.stage = "login" =>
       /\ scenario.attempt # scenario.pw1 => scenario.login_code = 401
       /\ scenario.attempt = scenario.pw1 =>
            scenario.login_code = 200 /\ scenario.login_name = scenario.name

\* create(name, pw1), create(name, pw2) with another password, and then a
\* login with pw1 have just run one after the other
C8_Witness ==
  /\ scenario.stage = "login"
  /\ scenario.pw2 # scenario.pw1
  /\ scenario.attempt = scenario.pw1
  /\ scenario.login_code = 200

\* C9: from any session state one logout and two logouts in a row both
\* answer success and lead to the same session state, in which check_session
\* reports logged_in false and every administrator-only and trainer-only
\* request is answered Unauthorized; logout leaves both collections unchanged.
C9_LogoutClearsAndIsIdempotent ==
  /\ \A c \in Clients :
       LET once == logout(session[c], trainers, projects)
           twice == logout(once.session, once.trainers, once.projects)
       IN /\ once.code = 200 /\ twice.code = 200
          /\ twice.session = once.session
          /\ ~check_session(once.session).logged_in
          /\ \A r \in AdminOnlyResults(once.session)
                      \cup TrainerOnlyResults(once.session) : Refused(r)
          /\ once.trainers = trainers /\ once.projects = projects
          /\ twice.trainers = trainers /\ twice.projects = projects
  /\ (resp.op = "logout" /\ pc[resp.client] = "idle") =>
       /\ resp.code = 200
       /\ ~check_session(session[resp.client]).logged_in

\* a logout has just been answered, with trainers and projects in the store
C9_Witness ==
  /\ resp.op = "logout"
  /\ resp.code = 200
  /\ session[resp.client] = EmptySession
  /\ Len(trainers) > 0
  /\ Len(projects) > 0

====
